---- MODULE Spec2Model ----
(***************************************************************************)
(* Budget Tracker (src/budget_planner/client/src/App.jsx): the React       *)
(* component BudgetExpenseTracker, its reducer and its useLocalStorage     *)
(* hook, as a state machine.                                               *)
(*                                                                         *)
(* A state is the component's state as of the last committed render, the   *)
(* browser's localStorage, the pending load timer and the wall clock.      *)
(* One action is one event handler (with the render it causes), the load   *)
(* timer's callback, or one run of the component's passive effects.        *)
(* Text is a sequence of one-character strings; numbers are integers (an   *)
(* amount or a limit is a whole number of currency units); a Date is the   *)
(* clock reading it was made from.  Dependency lists and state setters     *)
(* compare by content.                                                     *)
(***************************************************************************)
EXTENDS Integers, Sequences, FiniteSets, TLC

\* Most records the ledger holds (the add button is not offered beyond it).
MaxLedger == 2
\* The clock reads 1..MaxClock.
MaxClock == 2
\* Most calls of localStorage.setItem that throw in one session.
MaxFailures == 1
\* The month selector stays within MaxYears years of the year of the first render.
MaxYears == 1

----------------------------------------------------------------------------
(* Text and numbers *)

WhiteSpace == {" "}

DigitValue == [c \in {"0", "1", "2", "3", "4", "5", "6", "7", "8", "9"} |->
                 CASE c = "0" -> 0 [] c = "1" -> 1 [] c = "2" -> 2 [] c = "3" -> 3
                   [] c = "4" -> 4 [] c = "5" -> 5 [] c = "6" -> 6 [] c = "7" -> 7
                   [] c = "8" -> 8 [] c = "9" -> 9]

Digits == DOMAIN DigitValue

RECURSIVE TrimStart(_)
TrimStart(s) == IF s # <<>> /\ Head(s) \in WhiteSpace THEN TrimStart(Tail(s)) ELSE s

RECURSIVE TrimEnd(_)
TrimEnd(s) ==
  IF s # <<>> /\ s[Len(s)] \in WhiteSpace THEN TrimEnd(SubSeq(s, 1, Len(s) - 1)) ELSE s

\* String.prototype.trim
trim(s) == TrimEnd(TrimStart(s))

\* The longest prefix of s made of digits.
RECURSIVE DigitPrefix(_)
DigitPrefix(s) ==
  IF s # <<>> /\ Head(s) \in Digits THEN <<Head(s)>> \o DigitPrefix(Tail(s)) ELSE <<>>

RECURSIVE DecimalValue(_)
DecimalValue(ds) ==
  IF ds = <<>> THEN 0
  ELSE 10 * DecimalValue(SubSeq(ds, 1, Len(ds) - 1)) + DigitValue[ds[Len(ds)]]

\* parseFloat: leading white space is skipped, then an optional sign, then the
\* longest run of digits; anything after it is ignored; no digit gives NaN.
parseFloat(s) ==
  LET t == TrimStart(s)
      signed == t # <<>> /\ Head(t) \in {"-", "+"}
      body == IF signed THEN Tail(t) ELSE t
      ds == DigitPrefix(body)
  IN  IF ds = <<>> THEN [nan |-> TRUE, num |-> 0]
      ELSE [nan |-> FALSE,
            num |-> IF signed /\ Head(t) = "-" THEN 0 - DecimalValue(ds)
                    ELSE DecimalValue(ds)]

isNaN(x) == x.nan

DigitChar(d) == CHOOSE c \in Digits : DigitValue[c] = d

RECURSIVE NatToString(_)
NatToString(n) ==
  IF n < 10 THEN <<DigitChar(n)>> ELSE NatToString(n \div 10) \o <<DigitChar(n % 10)>>

\* Number.prototype.toString
toString(n) == IF n < 0 THEN <<"-">> \o NatToString(0 - n) ELSE NatToString(n)

\* A non-empty string is truthy.
Truthy(s) == s # <<>>

\* The calendar.  Successive clock readings fall in successive months: reading
\* 1 in December of year 1, reading 2 in January of year 2.  A date written
\* by toISOString and read back by new Date(...) is the same instant.
\* Date.prototype.getMonth
getMonth(date) == (date + 22) % 12
\* Date.prototype.getFullYear
getFullYear(date) == (date + 22) \div 12

----------------------------------------------------------------------------
(* The reducer *)

\* { ...expense, ...updates }
Spread(expense, updates) ==
  [f \in DOMAIN expense \cup DOMAIN updates |->
     IF f \in DOMAIN updates THEN updates[f] ELSE expense[f]]

\* The reducer with DELETE_EXPENSE written as state.splice(state.findIndex(...), 1):
\* it removes the first match only, and the last record when nothing matches.
expenseReducerSplice(state, action) ==
  CASE action.type = "ADD_EXPENSE" -> Append(state, action.payload)
    [] action.type = "DELETE_EXPENSE" ->
         LET matches == {i \in 1..Len(state) : state[i].id = action.payload}
             at == IF matches = {} THEN Len(state)
                   ELSE CHOOSE i \in matches : \A j \in matches : i <= j
         IN  [i \in 1..(IF state = <<>> THEN 0 ELSE Len(state) - 1) |->
                IF i < at THEN state[i] ELSE state[i + 1]]
    [] action.type = "UPDATE_EXPENSE" ->
         [i \in 1..Len(state) |->
            IF state[i].id = action.payload.id
            THEN Spread(state[i], action.payload.updates)
            ELSE state[i]]
    [] OTHER -> state

\* The reducer with an UPDATE_EXPENSE that adds the record when no record has
\* the id.
expenseReducerUpsert(state, action) ==
  CASE action.type = "ADD_EXPENSE" -> Append(state, action.payload)
    [] action.type = "DELETE_EXPENSE" ->
         SelectSeq(state, LAMBDA expense : expense.id # action.payload)
    [] action.type = "UPDATE_EXPENSE" ->
         IF \E i \in 1..Len(state) : state[i].id = action.payload.id
         THEN [i \in 1..Len(state) |->
                 IF state[i].id = action.payload.id
                 THEN Spread(state[i], action.payload.updates)
                 ELSE state[i]]
         ELSE Append(state, Spread([id |-> action.payload.id], action.payload.updates))
    [] OTHER -> state

expenseReducer(state, action) ==
  CASE action.type = "ADD_EXPENSE" -> Append(state, action.payload)
    [] action.type = "DELETE_EXPENSE" ->
         SelectSeq(state, LAMBDA expense : expense.id # action.payload)
    [] action.type = "UPDATE_EXPENSE" ->
         [i \in 1..Len(state) |->
            IF state[i].id = action.payload.id
            THEN Spread(state[i], action.payload.updates)
            ELSE state[i]]
    [] OTHER -> state

----------------------------------------------------------------------------
(* localStorage and the useLocalStorage hook *)

\* getItem of a key that was never set
NullItem == [kind |-> "null"]
\* an item that is not JSON text
GarbageItem == [kind |-> "garbage"]
\* JSON.stringify: the values written are arrays and objects of finite numbers
\* and strings, which JSON text carries without loss.
JSONstringify(value) == [kind |-> "json", value |-> value]
JSONparse(item) == item.value
ParseThrows(item) == item.kind # "json"

\* The initialiser with a catch block that returns {} instead of initialValue.
InitialReadEmptyOnThrow(item, initialValue) ==
  IF item.kind = "null" THEN initialValue
  ELSE IF ParseThrows(item) THEN [f \in {} |-> 0]
  ELSE JSONparse(item)

\* useState initialiser of the hook
InitialRead(item, initialValue) ==
  IF item.kind = "null" THEN initialValue
  ELSE IF ParseThrows(item) THEN initialValue
  ELSE JSONparse(item)

\* setValue that replaces storedValue and never calls setItem.
setItemForgotten(store, key, value, ok) == store

\* What localStorage holds under key after setValue(value); setItem may throw,
\* which setValue catches.
setItem(store, key, value, ok) ==
  IF ok THEN [store EXCEPT ![key] = JSONstringify(value)] ELSE store

----------------------------------------------------------------------------
(* The component *)

\* useState({ food: 300, ... })
DefaultBudgets ==
  [food |-> 300, housing |-> 800, transportation |-> 150, utilities |-> 200,
   entertainment |-> 100, healthcare |-> 150, shopping |-> 200, other |-> 100]

\* The category enumeration: the <option> values of the form.
Categories ==
  {"food", "housing", "transportation", "utilities", "entertainment",
   "healthcare", "shopping", "other"}

Types == {"expense", "income"}

\* useState(null) of editingExpenseId; an id is a clock reading, never 0.
NoId == 0

(* What the user types and picks. *)
DescriptionInputs == {<<>>, <<" ">>, <<"a">>}
AmountInputs == {<<>>, <<"x">>, <<"-", "1">>, <<"2">>}
CategoryInputs == {"food", "housing"}
BudgetInputs == {<<>>, <<"x">>, <<"-", "5">>, <<"0">>, <<"5", "0">>}

(* What localStorage may hold when the page is opened. *)
StoredExpense ==
  [id |-> 0, description |-> <<"r">>, amount |-> 8, category |-> "housing",
   type |-> "expense", date |-> 0]
ExpensesItems ==
  {NullItem, GarbageItem, JSONstringify(<<>>), JSONstringify(<<StoredExpense>>)}
BudgetsItems ==
  {NullItem, GarbageItem,
   JSONstringify([DefaultBudgets EXCEPT !.food = 50]),
   JSONstringify([food |-> 300]),
   JSONstringify([DefaultBudgets EXCEPT !.housing = 0 - 800])}

VARIABLES
  expenses,          \* useReducer(expenseReducer, [])
  description,       \* form field
  amount,            \* form field, the text of the number input
  category,          \* form field
  type,              \* form field
  editingExpenseId,  \* id under edit, or NoId
  showAddExpense,    \* the form is shown
  isLoading,         \* the loader is shown instead of the page
  budgets,           \* the Budget Table
  showEditBudget,    \* the limits are shown as inputs
  savedExpenses,     \* storedValue of useLocalStorage('expenses', [])
  savedBudgets,      \* storedValue of useLocalStorage('budgets', budgets)
  storage,           \* window.localStorage: key -> item
  writeFailed,       \* key -> the last setItem of the key threw
  failures,          \* how many calls of setItem have thrown
  timer,             \* <<>> or <<closure>>: the pending setTimeout of the load effect
  loadDeps,          \* the load effect's dependencies when it last ran (<<>> before mount)
  pendingEffects,    \* a render is committed whose passive effects have not run
  now,               \* the wall clock
  currentMonth,      \* the selected month, 0..11
  currentYear,       \* the selected year
  lastIntent,        \* the handler that ran in the last step, and whether it took effect
  touched            \* an add, delete, update or budget change was made this session

vars ==
  <<expenses, description, amount, category, type, editingExpenseId,
    showAddExpense, isLoading, budgets, showEditBudget, savedExpenses,
    savedBudgets, storage, writeFailed, failures, timer, loadDeps, pendingEffects, now,
    currentMonth, currentYear, lastIntent, touched>>

form == <<description, amount, category, type, editingExpenseId, showAddExpense>>
persisted == <<savedExpenses, savedBudgets, storage, writeFailed, failures>>
scheduling == <<timer, loadDeps>>
selected == <<currentMonth, currentYear>>

\* The first render of a freshly opened page.
Init ==
  /\ storage \in [expenses : ExpensesItems, budgets : BudgetsItems]
  /\ expenses = <<>>
  /\ description = <<>>
  /\ amount = <<>>
  /\ category = "food"
  /\ type = "expense"
  /\ editingExpenseId = NoId
  /\ showAddExpense = FALSE
  /\ isLoading = TRUE
  /\ budgets = DefaultBudgets
  /\ showEditBudget = FALSE
  /\ savedExpenses = InitialRead(storage.expenses, <<>>)
  /\ savedBudgets = InitialRead(storage.budgets, DefaultBudgets)
  /\ writeFailed = [expenses |-> FALSE, budgets |-> FALSE]
  /\ failures = 0
  /\ timer = <<>>
  /\ loadDeps = <<>>
  /\ pendingEffects = TRUE
  /\ now = 1
  /\ currentMonth = getMonth(now)
  /\ currentYear = getFullYear(now)
  /\ lastIntent = "mount"
  /\ touched = FALSE

\* The passive effects of the last committed render, in source order: the load
\* effect (runs when savedExpenses or savedBudgets changed: clears the pending
\* timer and sets a new one), then the two persistence effects (they run after
\* every render, since setValue is a new function each render).  setValue
\* replaces storedValue before it calls setItem, so a changed storedValue
\* commits another render, whose effects are then pending.
RunEffects(okExpenses, okBudgets) ==
  /\ pendingEffects
  /\ LET deps == <<savedExpenses, savedBudgets>>
         thrown == (IF okExpenses THEN 0 ELSE 1) + (IF okBudgets THEN 0 ELSE 1)
     IN  /\ timer' = IF loadDeps # deps
                     THEN <<[savedExpenses |-> savedExpenses,
                             savedBudgets |-> savedBudgets]>>
                     ELSE timer
         /\ loadDeps' = deps
         /\ IF isLoading
            THEN /\ okExpenses /\ okBudgets
                 /\ UNCHANGED persisted
            ELSE /\ failures + thrown <= MaxFailures
                 /\ savedExpenses' = expenses
                 /\ savedBudgets' = budgets
                 /\ storage' = setItem(setItem(storage, "expenses", expenses, okExpenses),
                                       "budgets", budgets, okBudgets)
                 /\ writeFailed' = [expenses |-> ~okExpenses, budgets |-> ~okBudgets]
                 /\ failures' = failures + thrown
         /\ pendingEffects' = (savedExpenses' # savedExpenses \/ savedBudgets' # savedBudgets)
  /\ lastIntent' = "effects"
  /\ UNCHANGED <<expenses, budgets, isLoading, showEditBudget, form, now, touched>>
  /\ UNCHANGED selected

\* The callback without setIsLoading(false).
TimerFiresKeepsLoader ==
  /\ timer # <<>>
  /\ expenses' = expenseReducer(expenses, [type |-> "INIT", payload |-> timer[1].savedExpenses])
  /\ budgets' = timer[1].savedBudgets
  /\ timer' = <<>>
  /\ pendingEffects' = (pendingEffects \/ expenses' # expenses \/ budgets' # budgets)
  /\ lastIntent' = "load"
  /\ UNCHANGED <<isLoading, form, showEditBudget, persisted, loadDeps, now, touched>>
  /\ UNCHANGED selected

\* The callback of the load effect's setTimeout.
TimerFires ==
  /\ timer # <<>>
  /\ expenses' = expenseReducer(expenses, [type |-> "INIT", payload |-> timer[1].savedExpenses])
  /\ budgets' = timer[1].savedBudgets
  /\ isLoading' = FALSE
  /\ timer' = <<>>
  /\ pendingEffects' = (pendingEffects \/ expenses' # expenses \/ budgets' # budgets \/ isLoading)
  /\ lastIntent' = "load"
  /\ UNCHANGED <<form, showEditBudget, persisted, loadDeps, now, touched>>
  /\ UNCHANGED selected

\* Time passes.
Tick ==
  /\ now < MaxClock
  /\ now' = now + 1
  /\ lastIntent' = "tick"
  /\ UNCHANGED <<expenses, budgets, isLoading, showEditBudget, form, persisted,
                 scheduling, pendingEffects, touched>>
  /\ UNCHANGED selected

\* The page gives way to an error screen once a write has failed.
InteractiveUnlessFailed == ~isLoading /\ ~pendingEffects /\ failures = 0

\* The page is rendered while the load is pending too.
InteractiveWhileLoading == ~pendingEffects

\* The page is rendered (not the loader) and no effect is pending: the user
\* can act on it.
Interactive == ~isLoading /\ ~pendingEffects

\* onClick of "Add Transaction"
ToggleAddExpense ==
  /\ Interactive
  /\ showAddExpense' = ~showAddExpense
  /\ pendingEffects' = TRUE
  /\ lastIntent' = "toggle"
  /\ UNCHANGED <<expenses, description, amount, category, type, editingExpenseId,
                 isLoading, budgets, showEditBudget, persisted, scheduling, now, touched>>
  /\ UNCHANGED selected

\* onChange of the description input
SetDescription(value) ==
  /\ Interactive /\ showAddExpense
  /\ value # description
  /\ description' = value
  /\ pendingEffects' = TRUE
  /\ lastIntent' = "type"
  /\ UNCHANGED <<expenses, amount, category, type, editingExpenseId, showAddExpense,
                 isLoading, budgets, showEditBudget, persisted, scheduling, now, touched>>
  /\ UNCHANGED selected

\* onChange of the amount input
SetAmount(value) ==
  /\ Interactive /\ showAddExpense
  /\ value # amount
  /\ amount' = value
  /\ pendingEffects' = TRUE
  /\ lastIntent' = "type"
  /\ UNCHANGED <<expenses, description, category, type, editingExpenseId, showAddExpense,
                 isLoading, budgets, showEditBudget, persisted, scheduling, now, touched>>
  /\ UNCHANGED selected

\* onChange of the category select
SetCategory(value) ==
  /\ Interactive /\ showAddExpense
  /\ value # category
  /\ category' = value
  /\ pendingEffects' = TRUE
  /\ lastIntent' = "type"
  /\ UNCHANGED <<expenses, description, amount, type, editingExpenseId, showAddExpense,
                 isLoading, budgets, showEditBudget, persisted, scheduling, now, touched>>
  /\ UNCHANGED selected

\* onClick of the Expense and Income buttons
SetType(value) ==
  /\ Interactive /\ showAddExpense
  /\ value # type
  /\ type' = value
  /\ pendingEffects' = TRUE
  /\ lastIntent' = "type"
  /\ UNCHANGED <<expenses, description, amount, category, editingExpenseId, showAddExpense,
                 isLoading, budgets, showEditBudget, persisted, scheduling, now, touched>>
  /\ UNCHANGED selected

\* onClick of Cancel
CancelForm ==
  /\ Interactive /\ showAddExpense
  /\ showAddExpense' = FALSE
  /\ editingExpenseId' = NoId
  /\ description' = <<>>
  /\ amount' = <<>>
  /\ pendingEffects' = TRUE
  /\ lastIntent' = "cancel"
  /\ UNCHANGED <<expenses, category, type, isLoading, budgets, showEditBudget,
                 persisted, scheduling, now, touched>>
  /\ UNCHANGED selected

\* The condition without the trim.
FormAcceptedUntrimmed ==
  Truthy(description) /\ Truthy(amount) /\ ~isNaN(parseFloat(amount))

\* The condition of handleAddExpense and updateExpense on the form fields.
FormAccepted ==
  Truthy(trim(description)) /\ Truthy(amount) /\ ~isNaN(parseFloat(amount))

\* The record dated with the time of the first render.
newExpenseObjDatedAtMount ==
  [id |-> now, description |-> description, amount |-> parseFloat(amount).num,
   category |-> category, type |-> type, date |-> 1]

newExpenseObj ==
  [id |-> now, description |-> description, amount |-> parseFloat(amount).num,
   category |-> category, type |-> type, date |-> now]

\* onClick of the submit button while no record is under edit
HandleAddExpense ==
  /\ Interactive /\ showAddExpense
  /\ editingExpenseId = NoId
  /\ Len(expenses) < MaxLedger
  /\ touched' = TRUE
  /\ IF FormAccepted
     THEN /\ expenses' = expenseReducer(expenses, [type |-> "ADD_EXPENSE", payload |-> newExpenseObj])
          /\ description' = <<>>
          /\ amount' = <<>>
          /\ showAddExpense' = FALSE
          /\ pendingEffects' = TRUE
          /\ lastIntent' = "add"
     ELSE /\ lastIntent' = "addRejected"
          /\ UNCHANGED <<expenses, description, amount, showAddExpense, pendingEffects>>
  /\ UNCHANGED <<category, type, editingExpenseId, isLoading, budgets, showEditBudget,
                 persisted, scheduling, now>>
  /\ UNCHANGED selected

\* onClick of the trash button of a listed record
DeleteExpense(i) ==
  /\ Interactive
  /\ i \in 1..Len(expenses)
  /\ expenses' = expenseReducer(expenses, [type |-> "DELETE_EXPENSE", payload |-> expenses[i].id])
  /\ pendingEffects' = TRUE
  /\ lastIntent' = "delete"
  /\ touched' = TRUE
  /\ UNCHANGED <<form, isLoading, budgets, showEditBudget, persisted, scheduling, now>>
  /\ UNCHANGED selected

\* onClick of the edit button of a listed record
StartEditExpense(i) ==
  /\ Interactive
  /\ i \in 1..Len(expenses)
  /\ editingExpenseId' = expenses[i].id
  /\ description' = expenses[i].description
  /\ amount' = toString(expenses[i].amount)
  /\ category' = expenses[i].category
  /\ type' = expenses[i].type
  /\ showAddExpense' = TRUE
  /\ pendingEffects' = TRUE
  /\ lastIntent' = "startEdit"
  /\ UNCHANGED <<expenses, isLoading, budgets, showEditBudget, persisted, scheduling,
                 now, touched>>
  /\ UNCHANGED selected

expenseUpdates ==
  [description |-> description, amount |-> parseFloat(amount).num,
   category |-> category, type |-> type, updatedAt |-> now]

\* onClick of the submit button while a record is under edit
UpdateExpense ==
  /\ Interactive /\ showAddExpense
  /\ editingExpenseId # NoId
  /\ touched' = TRUE
  /\ IF FormAccepted /\ editingExpenseId # NoId
     THEN /\ expenses' = expenseReducer(expenses,
                           [type |-> "UPDATE_EXPENSE",
                            payload |-> [id |-> editingExpenseId, updates |-> expenseUpdates]])
          /\ description' = <<>>
          /\ amount' = <<>>
          /\ editingExpenseId' = NoId
          /\ showAddExpense' = FALSE
          /\ pendingEffects' = TRUE
          /\ lastIntent' = "update"
     ELSE /\ lastIntent' = "updateRejected"
          /\ UNCHANGED <<expenses, description, amount, editingExpenseId, showAddExpense,
                         pendingEffects>>
  /\ UNCHANGED <<category, type, isLoading, budgets, showEditBudget, persisted,
                 scheduling, now>>
  /\ UNCHANGED selected

\* onClick of "Edit Budgets" / "Done"
ToggleEditBudget ==
  /\ Interactive
  /\ showEditBudget' = ~showEditBudget
  /\ pendingEffects' = TRUE
  /\ lastIntent' = "toggle"
  /\ UNCHANGED <<expenses, form, isLoading, budgets, persisted, scheduling, now, touched>>
  /\ UNCHANGED selected

\* The condition without the sign test.
BudgetAcceptedAnyNumber(newValue) == ~isNaN(newValue)

\* The condition of updateBudget on the parsed value.
BudgetAccepted(newValue) == ~isNaN(newValue) /\ newValue.num >= 0

\* onChange of the limit input of a category of the table
UpdateBudget(cat, value) ==
  /\ Interactive /\ showEditBudget
  /\ cat \in DOMAIN budgets
  /\ touched' = TRUE
  /\ LET newValue == parseFloat(value)
     IN  IF BudgetAccepted(newValue)
         THEN /\ budgets' = Spread(budgets, [c \in {cat} |-> newValue.num])
              /\ pendingEffects' = TRUE
              /\ lastIntent' = "budget"
         ELSE /\ lastIntent' = "budgetRejected"
              /\ UNCHANGED <<budgets, pendingEffects>>
  /\ UNCHANGED <<expenses, form, isLoading, showEditBudget, persisted, scheduling, now>>
  /\ UNCHANGED selected

(* What a render computes from the ledger, the table and the selected month. *)

\* .reduce((sum, expense) => sum + expense.amount, 0)
RECURSIVE reduceAmounts(_)
reduceAmounts(list) ==
  IF list = <<>> THEN 0
  ELSE reduceAmounts(SubSeq(list, 1, Len(list) - 1)) + list[Len(list)].amount

\* The filter without the test of the year.
currentMonthExpensesAnyYear ==
  SelectSeq(expenses, LAMBDA expense : getMonth(expense.date) = currentMonth)

currentMonthExpenses ==
  SelectSeq(expenses, LAMBDA expense :
    getMonth(expense.date) = currentMonth /\ getFullYear(expense.date) = currentYear)

totalIncome ==
  reduceAmounts(SelectSeq(currentMonthExpenses, LAMBDA expense : expense.type = "income"))

totalExpenses ==
  reduceAmounts(SelectSeq(currentMonthExpenses, LAMBDA expense : expense.type = "expense"))

balance == totalIncome - totalExpenses

categoryTotals ==
  [cat \in DOMAIN budgets |->
     reduceAmounts(SelectSeq(currentMonthExpenses, LAMBDA expense :
       expense.category = cat /\ expense.type = "expense"))]

\* The percentages without the test of the limit: a division by the limit,
\* whatever it is.
categoryPercentagesUnguarded ==
  LET totals == categoryTotals
  IN  [cat \in DOMAIN budgets |-> [num |-> totals[cat] * 100, den |-> budgets[cat]]]

\* A percentage is the exact quotient num / den, den > 0.
categoryPercentages ==
  LET totals == categoryTotals
  IN  [cat \in DOMAIN budgets |->
         IF budgets[cat] > 0
         THEN [num |-> totals[cat] * 100, den |-> budgets[cat]]
         ELSE [num |-> 0, den |-> 1]]

\* percentage > n
Exceeds(percentage, n) == percentage.num > n * percentage.den

\* The class with >= in place of > in the first test.
barClassFrom100(cat) ==
  LET percentage == categoryPercentages[cat]
  IN  IF percentage.num >= 100 * percentage.den THEN "bg-red-500"
      ELSE IF Exceeds(percentage, 75) THEN "bg-orange-500"
      ELSE "bg-green-500"

\* className of a category's bar: red is over budget, orange is the warning.
barClass(cat) ==
  LET percentage == categoryPercentages[cat]
  IN  IF Exceeds(percentage, 100) THEN "bg-red-500"
      ELSE IF Exceeds(percentage, 75) THEN "bg-orange-500"
      ELSE "bg-green-500"

\* onClick of the button left of the month's name
PrevMonth ==
  /\ Interactive
  /\ currentMonth = 0 => currentYear > getFullYear(1) - MaxYears
  /\ IF currentMonth = 0
     THEN /\ currentMonth' = 11
          /\ currentYear' = currentYear - 1
     ELSE /\ currentMonth' = currentMonth - 1
          /\ UNCHANGED currentYear
  /\ pendingEffects' = TRUE
  /\ lastIntent' = "prevMonth"
  /\ UNCHANGED <<expenses, form, isLoading, budgets, showEditBudget, persisted,
                 scheduling, now, touched>>

\* The handler without the test for December.
NextMonthNoWrap ==
  /\ Interactive
  /\ currentMonth = 11 => currentYear < getFullYear(1) + MaxYears
  /\ currentMonth' = currentMonth + 1
  /\ IF currentMonth = 11
     THEN currentYear' = currentYear + 1
     ELSE UNCHANGED currentYear
  /\ pendingEffects' = TRUE
  /\ lastIntent' = "nextMonth"
  /\ UNCHANGED <<expenses, form, isLoading, budgets, showEditBudget, persisted,
                 scheduling, now, touched>>

\* onClick of the button right of the month's name
NextMonth ==
  /\ Interactive
  /\ currentMonth = 11 => currentYear < getFullYear(1) + MaxYears
  /\ IF currentMonth = 11
     THEN /\ currentMonth' = 0
          /\ currentYear' = currentYear + 1
     ELSE /\ currentMonth' = currentMonth + 1
          /\ UNCHANGED currentYear
  /\ pendingEffects' = TRUE
  /\ lastIntent' = "nextMonth"
  /\ UNCHANGED <<expenses, form, isLoading, budgets, showEditBudget, persisted,
                 scheduling, now, touched>>

\* The page's own steps; setItem may throw.
Lifecycle ==
  \/ \E okExpenses \in BOOLEAN, okBudgets \in BOOLEAN : RunEffects(okExpenses, okBudgets)
  \/ TimerFires
  \/ Tick

\* The same with a localStorage that never throws.
LifecycleStorageWorks ==
  \/ RunEffects(TRUE, TRUE)
  \/ TimerFires
  \/ Tick

TextIntents ==
  \/ ToggleAddExpense
  \/ \E value \in DescriptionInputs : SetDescription(value)
  \/ \E value \in AmountInputs : SetAmount(value)
  \/ CancelForm

KindIntents ==
  \/ \E value \in CategoryInputs : SetCategory(value)
  \/ \E value \in Types : SetType(value)

LedgerIntents ==
  \/ HandleAddExpense
  \/ \E i \in 1..MaxLedger : DeleteExpense(i)
  \/ \E i \in 1..MaxLedger : StartEditExpense(i)
  \/ UpdateExpense

\* The user edits the limits of the categories cats.
BudgetIntents(cats) ==
  \/ ToggleEditBudget
  \/ \E cat \in cats, value \in BudgetInputs : UpdateBudget(cat, value)

MonthIntents == PrevMonth \/ NextMonth

\* Every step of the page.
Next ==
  Lifecycle \/ TextIntents \/ KindIntents \/ LedgerIntents \/ BudgetIntents(Categories)
    \/ MonthIntents

Spec == Init /\ [][Next]_vars

\* A user who fills in the form and edits two limits but never submits the
\* form: every stored state, a localStorage that may throw.
NextLoad ==
  Lifecycle \/ TextIntents \/ KindIntents \/ BudgetIntents({"food", "housing"})

SpecLoad == Init /\ [][NextLoad]_vars

\* A user who only edits limits: every stored state, a localStorage that may
\* throw.
NextBudget == Lifecycle \/ BudgetIntents({"food", "housing", "other"})

SpecBudget == Init /\ [][NextBudget]_vars

\* The same user on a browser that runs what it has scheduled: the passive
\* effects of a committed render are run, and a timer that stays set fires.
SpecBudgetFair ==
  /\ Init /\ [][NextBudget]_vars
  /\ WF_vars(RunEffects(TRUE, TRUE))
  /\ WF_vars(TimerFires)

\* A page opened on an empty localStorage.
InitEmpty == Init /\ storage = [expenses |-> NullItem, budgets |-> NullItem]

\* A user who keeps the ledger and leaves the limits alone, on a localStorage
\* that never throws.
NextLedger == LifecycleStorageWorks \/ TextIntents \/ LedgerIntents

SpecLedger == InitEmpty /\ [][NextLedger]_vars

\* The same user on a page opened on any stored state.
SpecStartup == Init /\ [][NextLedger]_vars

\* A user who does everything but pick a category or a type, and edits one
\* limit.
NextSync == Lifecycle \/ TextIntents \/ LedgerIntents \/ BudgetIntents({"food"})

SpecSync == InitEmpty /\ [][NextSync]_vars

\* A user who adds incomes and expenses as time passes and steps through the
\* months, on an empty localStorage that never throws.
NextMonthly ==
  \/ LifecycleStorageWorks
  \/ TextIntents
  \/ \E value \in Types : SetType(value)
  \/ HandleAddExpense
  \/ MonthIntents

SpecMonthly == InitEmpty /\ [][NextMonthly]_vars

(* The summary of a ledger: an idle page some time after load, holding any
   ledger of records added in this session and a table the user has set; the
   user steps through the months. *)
SummaryAmounts == [expense |-> {600, 800}, income |-> {600}]
SummaryRecords ==
  UNION {{[id |-> d, description |-> <<"a">>, amount |-> a, category |-> c, type |-> t,
           date |-> d] : d \in 1..MaxClock, a \in SummaryAmounts[t], c \in CategoryInputs} :
         t \in Types}
\* Records are appended as the clock advances, so a ledger is in date order.
SummaryLedgers ==
  {ledger \in UNION {[1..n -> SummaryRecords] : n \in 0..MaxLedger} :
     \A i \in 1..Len(ledger), j \in 1..Len(ledger) : i < j => ledger[i].date <= ledger[j].date}
SummaryBudgets ==
  {DefaultBudgets, [DefaultBudgets EXCEPT !.food = 0], [DefaultBudgets EXCEPT !.food = 800]}

InitSummary ==
  /\ expenses \in SummaryLedgers
  /\ budgets \in SummaryBudgets
  /\ description = <<>>
  /\ amount = <<>>
  /\ category = "food"
  /\ type = "expense"
  /\ editingExpenseId = NoId
  /\ showAddExpense = FALSE
  /\ isLoading = FALSE
  /\ showEditBudget = FALSE
  /\ savedExpenses = expenses
  /\ savedBudgets = budgets
  /\ storage = [expenses |-> JSONstringify(expenses), budgets |-> JSONstringify(budgets)]
  /\ writeFailed = [expenses |-> FALSE, budgets |-> FALSE]
  /\ failures = 0
  /\ timer = <<>>
  /\ loadDeps = <<savedExpenses, savedBudgets>>
  /\ pendingEffects = FALSE
  /\ now = MaxClock
  /\ currentMonth = getMonth(1)
  /\ currentYear = getFullYear(1)
  /\ lastIntent = "effects"
  /\ touched = (expenses # <<>> \/ budgets # DefaultBudgets)

NextSummary == RunEffects(TRUE, TRUE) \/ MonthIntents

SpecSummary == InitSummary /\ [][NextSummary]_vars

----------------------------------------------------------------------------
(* Properties *)

Ids(ledger) == {ledger[i].id : i \in 1..Len(ledger)}

\* C1: once the startup load has completed, the in-memory ledger equals the
\* transaction list that was stored under `expenses` when the session began
\* (here: while nothing has been done to the ledger and the item still holds a
\* list).
C1_LoadedLedgerEqualsStored ==
  (lastIntent = "load" /\ ~touched /\ storage.expenses.kind = "json")
    => expenses = JSONparse(storage.expenses)

\* C2: as long as the user has made no add, delete, update or budget-change
\* intent, no step changes the data that localStorage holds under `expenses`
\* or under `budgets` (a key that holds no JSON text holds no data to keep).
C2_NoIntentKeepsStorage ==
  [][~touched'
       => \A key \in {"expenses", "budgets"} :
            storage[key].kind = "json" => storage'[key] = storage[key]]_vars

\* C3: after load, whenever no effect is pending (every write that a change
\* called for has run) and the last write of a key did not throw, the item
\* under `expenses` is the serialised ledger and the item under `budgets` is
\* the serialised Budget Table.
C3_StorageFollowsMemory ==
  (~isLoading /\ ~pendingEffects)
    => /\ ~writeFailed.expenses => storage.expenses = JSONstringify(expenses)
       /\ ~writeFailed.budgets => storage.budgets = JSONstringify(budgets)

C3_Witness ==
  /\ ~isLoading /\ ~pendingEffects /\ lastIntent = "effects"
  /\ ~writeFailed.expenses /\ ~writeFailed.budgets
  /\ Len(expenses) = 2
  /\ \E i \in 1..Len(expenses) : "updatedAt" \in DOMAIN expenses[i]
  /\ budgets # DefaultBudgets
  /\ storage.expenses = JSONstringify(expenses)
  /\ storage.budgets = JSONstringify(budgets)

\* C4: every transaction in the ledger has a non-negative amount.
C4_AmountsNonNegative == \A i \in 1..Len(expenses) : expenses[i].amount >= 0

\* C5: an add intent whose description is empty or only white space, or whose
\* amount is empty or does not parse to a number, changes nothing: not the
\* ledger, not the form, not the loading flag, not what is stored.
C5_RejectedAddIsNoOp ==
  [][(/\ HandleAddExpense
      /\ \/ trim(description) = <<>>
         \/ amount = <<>>
         \/ isNaN(parseFloat(amount)))
       => UNCHANGED <<expenses, form, isLoading, budgets, showEditBudget, persisted,
                      scheduling, pendingEffects, now>>]_vars

C5_Witness ==
  /\ lastIntent = "addRejected"
  /\ description # <<>> /\ trim(description) = <<>>
  /\ ~isNaN(parseFloat(amount))
  /\ Len(expenses) = 1

\* C6: no two records of the ledger share an id.
C6_IdsUnique ==
  \A i \in 1..Len(expenses), j \in 1..Len(expenses) :
    i # j => expenses[i].id # expenses[j].id

\* C7: a successful update keeps the number and order of the records, keeps
\* every record's id and date, and changes no record but the one under edit.
C7_UpdateChangesOneRecord ==
  [][(UpdateExpense /\ FormAccepted)
       => /\ Len(expenses') = Len(expenses)
          /\ \A i \in 1..Len(expenses) :
               /\ expenses'[i].id = expenses[i].id
               /\ expenses'[i].date = expenses[i].date
               /\ DOMAIN expenses'[i] \subseteq DOMAIN expenses[i] \cup {"updatedAt"}
               /\ expenses[i].id # editingExpenseId => expenses'[i] = expenses[i]
          /\ Cardinality({i \in 1..Len(expenses) : expenses'[i] # expenses[i]}) <= 1]_vars

\* C8: removing an id twice gives the ledger that removing it once gives, and
\* removing an id that no record has gives the ledger back, for every ledger
\* the page reaches and every id.
C8_RemoveIdempotent ==
  \A id \in 0..MaxClock :
    LET remove(ledger) == expenseReducer(ledger, [type |-> "DELETE_EXPENSE", payload |-> id])
    IN  /\ remove(remove(expenses)) = remove(expenses)
        /\ id \notin Ids(expenses) => remove(expenses) = expenses
        /\ id \notin Ids(remove(expenses))

C8_Witness ==
  /\ lastIntent = "delete"
  /\ Len(expenses) = 1
  /\ now \notin Ids(expenses)

\* C9: a budget change with a value that parses to a non-negative number sets
\* that category's limit to the number and changes no other limit; with any
\* other value the table is unchanged; and a budget change on a table of
\* non-negative limits leaves a table of non-negative limits.
C9_BudgetChangeGuarded ==
  [][lastIntent' \in {"budget", "budgetRejected"}
       => \A cat \in Categories, value \in BudgetInputs :
            UpdateBudget(cat, value)
              => /\ LET newValue == parseFloat(value)
                    IN  IF ~isNaN(newValue) /\ newValue.num >= 0
                        THEN budgets' = [budgets EXCEPT ![cat] = newValue.num]
                        ELSE budgets' = budgets
                 /\ (\A c \in DOMAIN budgets : budgets[c] >= 0)
                      => (\A c \in DOMAIN budgets' : budgets'[c] >= 0)]_vars

C9_Witness ==
  /\ lastIntent = "budgetRejected"
  /\ DOMAIN budgets = Categories
  /\ budgets.food = 0
  /\ budgets.housing = 50
  /\ \A c \in Categories \ {"food", "housing"} : budgets[c] = DefaultBudgets[c]

\* C10: the key set of the Budget Table is the category enumeration.
C10_BudgetKeysFixed == DOMAIN budgets = Categories

\* C11: the step that completes the startup load leaves the default Budget
\* Table when the item under `budgets` is absent or is not JSON text, and an
\* empty ledger when the item under `expenses` is absent or is not JSON text.
C11_FallbackToDefaults ==
  [][(isLoading /\ ~isLoading')
       => /\ storage.budgets.kind # "json" => budgets' = DefaultBudgets
          /\ storage.expenses.kind # "json" => expenses' = <<>>]_vars

C11_Witness ==
  /\ lastIntent = "load" /\ ~isLoading /\ ~touched
  /\ storage.budgets = GarbageItem
  /\ storage.expenses = NullItem
  /\ budgets = DefaultBudgets
  /\ expenses = <<>>

\* C12: a run of the effects in which setItem throws changes neither the
\* ledger nor the Budget Table nor what the page shows; after it the page is
\* still the one the user acts on as soon as the effects have run; and from
\* then on an accepted add appends its record, a delete removes the records of
\* the id, an accepted update rewrites the records of the id under edit, and
\* an accepted budget change sets the limit.
C12_FailedWriteIsContained ==
  [][/\ failures' > failures
          => UNCHANGED <<expenses, budgets, isLoading, showEditBudget, form>>
     /\ (failures' > 0 /\ ~pendingEffects') => Interactive'
     /\ (failures > 0 /\ lastIntent' = "add")
          => /\ Len(expenses') = Len(expenses) + 1
             /\ SubSeq(expenses', 1, Len(expenses)) = expenses
             /\ expenses'[Len(expenses')].description = description
             /\ expenses'[Len(expenses')].amount = parseFloat(amount).num
     /\ (failures > 0 /\ lastIntent' = "delete")
          => \E i \in 1..Len(expenses) :
               expenses' = SelectSeq(expenses, LAMBDA e : e.id # expenses[i].id)
     /\ (failures > 0 /\ lastIntent' = "update")
          => /\ Len(expenses') = Len(expenses)
             /\ \A i \in 1..Len(expenses) :
                  IF expenses[i].id = editingExpenseId
                  THEN /\ expenses'[i].description = description
                       /\ expenses'[i].amount = parseFloat(amount).num
                  ELSE expenses'[i] = expenses[i]
     /\ (failures > 0 /\ lastIntent' = "budget")
          => \E cat \in DOMAIN budgets, value \in BudgetInputs :
               budgets' = [budgets EXCEPT ![cat] = parseFloat(value).num]]_vars

\* The last write of the ledger threw, and the add made after it is in the
\* ledger.
C12_Witness ==
  /\ failures = 1 /\ writeFailed.expenses
  /\ lastIntent = "add" /\ Len(expenses) = 2
  /\ ~isLoading

\* C13: once the last write of a key has thrown and the contents it was to
\* write are still the contents in memory (no add, delete, update or budget
\* change has been made since), no step calls setItem again.
C13_FailedWriteNotRetried ==
  [][(\/ writeFailed.expenses /\ savedExpenses = expenses
      \/ writeFailed.budgets /\ savedBudgets = budgets)
       => ~(lastIntent' = "effects" /\ ~isLoading)]_vars

\* C14: while isLoading is true, a step is a run of the effects, the load
\* timer's callback or a tick of the clock, never an add, delete, update or
\* budget change; it leaves the ledger as it is, changes the Budget Table only
\* by loading it, and leaves localStorage and what the hook holds untouched.
C14_NoMutationBeforeLoad ==
  [][isLoading
       => /\ lastIntent' \in {"effects", "load", "tick"}
          /\ touched' = touched
          /\ expenses' = expenses
          /\ budgets' # budgets => lastIntent' = "load"
          /\ storage' = storage
          /\ savedExpenses' = savedExpenses /\ savedBudgets' = savedBudgets]_vars

\* The effects have run while the load is pending, over a stored ledger and
\* a stored table, and both are still stored.
C14_Witness ==
  /\ isLoading /\ lastIntent = "effects" /\ timer # <<>>
  /\ storage.expenses = JSONstringify(<<StoredExpense>>)
  /\ storage.budgets = JSONstringify([DefaultBudgets EXCEPT !.food = 50])
  /\ expenses = <<>> /\ budgets = DefaultBudgets

\* C15: totalIncome is the sum of the amounts of the income records dated in
\* the selected month of the selected year, totalExpenses the sum of the
\* amounts of the expense records dated in it, and balance their difference;
\* a record dated in another month or another year is in none of the sums.
C15_TotalsOfSelectedMonth ==
  LET InMonth == {i \in 1..Len(expenses) :
                    12 * getFullYear(expenses[i].date) + getMonth(expenses[i].date)
                      = 12 * currentYear + currentMonth}
      RECURSIVE SumOver(_)
      SumOver(S) == IF S = {} THEN 0
                    ELSE LET i == CHOOSE i \in S : TRUE
                         IN  expenses[i].amount + SumOver(S \ {i})
      income == SumOver({i \in InMonth : expenses[i].type = "income"})
      spending == SumOver({i \in InMonth : expenses[i].type = "expense"})
  IN  /\ totalIncome = income
      /\ totalExpenses = spending
      /\ balance = income - spending

\* The user has stepped to January of year 2: of two income records, the one
\* of January counts and the one of December does not.
C15_Witness ==
  /\ lastIntent = "nextMonth" /\ currentMonth = 0 /\ currentYear = 2
  /\ Len(expenses) = 2
  /\ expenses[1].date = 1 /\ expenses[1].type = "income"
  /\ expenses[2].date = 2 /\ expenses[2].type = "income"
  /\ totalIncome = expenses[2].amount
  /\ totalExpenses = 0
  /\ balance = totalIncome

\* C16: for every category of the Budget Table, the category's total is the
\* sum of the amounts of the selected month's expense records of the category
\* (income records never count), and its percentage is total / limit * 100
\* when the limit is above 0 and is 0 when the limit is 0.
C16_CategorySpentAndPercentage ==
  LET InMonth == {i \in 1..Len(expenses) :
                    12 * getFullYear(expenses[i].date) + getMonth(expenses[i].date)
                      = 12 * currentYear + currentMonth}
      RECURSIVE SumOver(_)
      SumOver(S) == IF S = {} THEN 0
                    ELSE LET i == CHOOSE i \in S : TRUE
                         IN  expenses[i].amount + SumOver(S \ {i})
      totals == categoryTotals
      percentages == categoryPercentages
  IN  \A cat \in DOMAIN budgets :
        LET spent == SumOver({i \in InMonth : /\ expenses[i].type = "expense"
                                               /\ expenses[i].category = cat})
            limit == budgets[cat]
            percentage == percentages[cat]
        IN  /\ totals[cat] = spent
            /\ percentage.den > 0
            /\ limit > 0 => percentage.num * limit = spent * 100 * percentage.den
            /\ limit = 0 => percentage.num = 0

\* The user has stepped to January of year 2; the limit of food is 0 and the
\* month has an income and an expense of food.
C16_Witness ==
  /\ currentMonth = 0 /\ currentYear = 2 /\ ~pendingEffects
  /\ budgets.food = 0
  /\ Len(currentMonthExpenses) = 2
  /\ \A i \in 1..2 : currentMonthExpenses[i].category = "food"
  /\ currentMonthExpenses[1].type = "income"
  /\ currentMonthExpenses[2].type = "expense"
  /\ categoryTotals.food = currentMonthExpenses[2].amount
  /\ categoryPercentages.food.num = 0

\* C17: a category's bar is red exactly when what was spent is above the
\* limit (percentage > 100), orange exactly when it is above three quarters of
\* the limit and not above the limit (75 < percentage <= 100), and green
\* otherwise; a category with no limit is green.
C17_StatusThresholds ==
  LET totals == categoryTotals
  IN  \A cat \in DOMAIN budgets :
        LET spent == totals[cat]
            limit == budgets[cat]
            class == barClass(cat)
        IN  IF limit > 0
            THEN /\ class = "bg-red-500" <=> spent > limit
                 /\ class = "bg-orange-500" <=> (4 * spent > 3 * limit /\ spent <= limit)
                 /\ class = "bg-green-500" <=> 4 * spent <= 3 * limit
            ELSE class = "bg-green-500"

\* In January of year 2, 800 spent against the housing limit of 800 is a
\* warning, and 600 spent against a food limit of 800 is normal.
C17_Witness ==
  /\ currentMonth = 0 /\ currentYear = 2 /\ ~pendingEffects
  /\ budgets.housing = 800 /\ categoryTotals.housing = 800
  /\ barClass("housing") = "bg-orange-500"
  /\ budgets.food = 800 /\ categoryTotals.food = 600
  /\ barClass("food") = "bg-green-500"

\* C18: a step backward selects the month before the selected one and a step
\* forward the month after it, counting months through the years (the month
\* before January of Y is December of Y - 1, the month after December of Y
\* is January of Y + 1); the selected month is always in 0..11; and a step
\* of the selector changes neither the ledger nor the Budget Table.
C18_MonthNavigation ==
  [][/\ currentMonth \in 0..11 /\ currentMonth' \in 0..11
     /\ lastIntent' = "prevMonth"
          => /\ 12 * currentYear' + currentMonth' = 12 * currentYear + currentMonth - 1
             /\ (currentMonth = 0) <=> (currentYear' = currentYear - 1 /\ currentMonth' = 11)
             /\ UNCHANGED <<expenses, budgets>>
     /\ lastIntent' = "nextMonth"
          => /\ 12 * currentYear' + currentMonth' = 12 * currentYear + currentMonth + 1
             /\ (currentMonth = 11) <=> (currentYear' = currentYear + 1 /\ currentMonth' = 0)
             /\ UNCHANGED <<expenses, budgets>>]_vars

\* The user has stepped back from January of year 1 to December of year 0,
\* over a ledger of two records.
C18_Witness ==
  /\ lastIntent = "prevMonth"
  /\ currentMonth = 11 /\ currentYear = 0
  /\ Len(expenses) = 2

\* C19: on a browser that runs the effects and fires the timer, the loader
\* eventually gives way to the page, and from the moment isLoading is false
\* it is false for good, whatever the user does and whether writes throw.
C19_StartupTerminates ==
  /\ <>(~isLoading)
  /\ [](~isLoading => [](~isLoading))

\* The load has completed, the user has changed a limit, a write has thrown,
\* and the page is still shown.
C19_Witness ==
  /\ ~isLoading /\ touched /\ failures = 1
  /\ lastIntent = "effects" /\ ~pendingEffects
  /\ budgets # DefaultBudgets

\* C20: an update submitted while no record has the id under edit (the
\* record was deleted while its edit was open) leaves the ledger as it is:
\* the record is not created again and no other record is changed.
C20_UpdateOfAbsentIdIsNoOp ==
  [][(lastIntent' = "update" /\ \A i \in 1..Len(expenses) : expenses[i].id # editingExpenseId)
       => expenses' = expenses]_vars

\* An update was accepted and the one record of the ledger bears no
\* updatedAt: the record under edit had been deleted.
C20_Witness ==
  /\ lastIntent = "update"
  /\ Len(expenses) = 1
  /\ "updatedAt" \notin DOMAIN expenses[1]

\* C21: once the load has completed, the callback of a load timer leaves the
\* Budget Table as it was immediately before it ran.
C21_TimerKeepsBudgets ==
  [][(~isLoading /\ lastIntent' = "load") => budgets' = budgets]_vars

\* C22: an accepted add of amount a raises, in the view of the month and year
\* of the clock reading at which it was made, totalIncome by a when its type
\* is income and totalExpenses by a when its type is expense, and moves the
\* balance by +a or -a; in the view of any other month the three are as
\* before; and the add does not move the selector.  (The view of a month is
\* what is rendered while that month is selected; the user adds with any
\* month selected.)
C22_AddReflectedInItsMonth ==
  [][lastIntent' = "add"
       => LET a == parseFloat(amount).num
              created == 12 * currentYear + currentMonth
                           = 12 * getFullYear(now) + getMonth(now)
              income == IF created /\ type = "income" THEN a ELSE 0
              spending == IF created /\ type = "expense" THEN a ELSE 0
          IN  /\ totalIncome' = totalIncome + income
              /\ totalExpenses' = totalExpenses + spending
              /\ balance' = balance + income - spending
              /\ UNCHANGED selected]_vars

\* The user has stepped on to January of year 2 and added an income and then
\* an expense at clock reading 2: both are in the totals of that month.
C22_Witness ==
  /\ lastIntent = "add" /\ now = 2
  /\ currentMonth = getMonth(2) /\ currentYear = getFullYear(2)
  /\ Len(expenses) = 2
  /\ expenses[1].type = "income" /\ expenses[1].date = 2
  /\ expenses[2].type = "expense" /\ expenses[2].date = 2
  /\ totalIncome = expenses[1].amount
  /\ totalExpenses = expenses[2].amount
  /\ balance = expenses[1].amount - expenses[2].amount

====
